---- MODULE Spec2Model ----
(***************************************************************************)
(* galaxy_ng: CollectionVersionMoveViewSet.move_content and the reserved   *)
(* task queue it submits to.                                               *)
(*                                                                         *)
(* Each request handler runs in its own web worker; every database read    *)
(* and every enqueue is one atomic step, and steps of different requests   *)
(* and of the task workers interleave freely.                              *)
(***************************************************************************)
EXTENDS Integers, Sequences, FiniteSets, TLC

\* Number of move requests issued in one behaviour.
MaxRequests == 2

None == "None"

-----------------------------------------------------------------------------
(* The database: collection versions, distributions, repositories.         *)

\* (namespace, name, version) triples a request may name, written as the
\* joined version_str of line 275.
VersionStrs == {"acme-tool-1.0.0", "acme-tool-9.9.9"}

\* The CollectionVersion rows that exist.
CollectionVersion == {"acme-tool-1.0.0"}

Repositories == {"r1", "r2", "r3"}

\* base_path values a request may name; "nonexistent" has no distribution,
\* "orphan" is a distribution whose repository is null.
Paths == {"src", "dst", "alt", "orphan", "nonexistent"}

\* AnsibleDistribution.objects.get(base_path=path).repository; "DoesNotExist"
\* stands for the ObjectDoesNotExist raised by .get().
AnsibleDistribution(path) ==
    CASE path = "src" -> "r1"
      [] path = "dst" -> "r2"
      [] path = "alt" -> "r3"
      [] path = "orphan" -> None
      [] OTHER -> "DoesNotExist"

\* HTTP status codes of the responses.
HTTP_202 == 202
NotFound_status_code == 404
APIException_status_code == 500

VARIABLES
    versions,   \* versions[repo]: the repository's versions' content sets, oldest first
    tasks,      \* the task queue, in submission order; a task's id is its index
    req,        \* the move requests, in order of arrival
    import_tasks,         \* the import tasks dispatched by uploads, in order
    collection_imports,   \* the CollectionImport rows, in order of creation
    uploads,              \* the upload requests answered so far
    GALAXY_REQUIRE_CONTENT_APPROVAL,   \* settings.GALAXY_REQUIRE_CONTENT_APPROVAL
    GALAXY_DEPLOYMENT_MODE,   \* settings.GALAXY_DEPLOYMENT_MODE
    synclists,            \* the pks of the SyncList rows
    synclist_response     \* the last answer of the synclist endpoints

moveVars == <<versions, tasks, req>>

uploadVars == <<import_tasks, collection_imports, uploads, GALAXY_REQUIRE_CONTENT_APPROVAL>>

synclistVars == <<GALAXY_DEPLOYMENT_MODE, synclists, synclist_response>>

vars == <<versions, tasks, req, import_tasks, collection_imports, uploads,
          GALAXY_REQUIRE_CONTENT_APPROVAL, GALAXY_DEPLOYMENT_MODE, synclists, synclist_response>>

\* repo.latest_version().content
latest_version_content(repo) == versions[repo][Len(versions[repo])]

-----------------------------------------------------------------------------
(* The task queue.                                                         *)

\* enqueue_with_reservation(func, locks, args): a new waiting task.
enqueue_with_reservation(func, locks, args) ==
    [func |-> func, locks |-> locks, args |-> args, state |-> "waiting"]

_add_content_no_lock(collection_version, repo) ==
    enqueue_with_reservation("add_content_to_repository", {},
                             <<collection_version, repo>>)

_add_content(collection_version, repo) ==
    enqueue_with_reservation("add_content_to_repository", {repo},
                             <<collection_version, repo>>)

_remove_content_no_lock(collection_version, repo) ==
    enqueue_with_reservation("remove_content_from_repository", {},
                             <<collection_version, repo>>)

_remove_content_copy_paste(collection_version, repo) ==
    enqueue_with_reservation("add_content_to_repository", {repo},
                             <<collection_version, repo>>)

_remove_content(collection_version, repo) ==
    enqueue_with_reservation("remove_content_from_repository", {repo},
                             <<collection_version, repo>>)

\* The resources reserved by the tasks that are running.
Reserved == UNION {tasks[t].locks : t \in {u \in DOMAIN tasks : tasks[u].state = "running"}}

\* A worker takes a waiting task none of whose locks is reserved.
StartTask(t) ==
    /\ t \in DOMAIN tasks
    /\ tasks[t].state = "waiting"
    /\ tasks[t].locks \cap Reserved = {}
    /\ tasks' = [tasks EXCEPT ![t].state = "running"]
    /\ UNCHANGED <<versions, req>>

\* The new version's content set a task function appends to its repository.
add_content_to_repository(collection_version_pk, repository_pk) ==
    latest_version_content(repository_pk) \cup {collection_version_pk}

remove_content_from_repository(collection_version_pk, repository_pk) ==
    latest_version_content(repository_pk) \ {collection_version_pk}

RunTask(task) ==
    IF task.func = "add_content_to_repository"
    THEN add_content_to_repository(task.args[1], task.args[2])
    ELSE remove_content_from_repository(task.args[1], task.args[2])

\* The running task commits its new repository version and releases its locks.
FinishTask(t) ==
    /\ t \in DOMAIN tasks
    /\ tasks[t].state = "running"
    /\ versions' = [versions EXCEPT ![tasks[t].args[2]] = Append(@, RunTask(tasks[t]))]
    /\ tasks' = [tasks EXCEPT ![t].state = "completed"]
    /\ UNCHANGED req

\* The running task fails without committing a version.
FailTask(t) ==
    /\ t \in DOMAIN tasks
    /\ tasks[t].state = "running"
    /\ tasks' = [tasks EXCEPT ![t].state = "failed"]
    /\ UNCHANGED <<versions, req>>

-----------------------------------------------------------------------------
(* move_content                                                            *)

NoResponse == [status |-> 0, detail |-> <<>>, add_task_id |-> 0, remove_task_id |-> 0]

ErrorResponse(status_code, detail) ==
    [status |-> status_code, detail |-> detail, add_task_id |-> 0, remove_task_id |-> 0]

NotFound(detail) == ErrorResponse(NotFound_status_code, detail)

APIException(detail) == ErrorResponse(APIException_status_code, detail)

\* src_repo / dest_repo is None: None.latest_version() is an unhandled error.
AttributeError == ErrorResponse(500, <<"AttributeError">>)

Response_same_id(add_task, remove_task) ==
    [status |-> HTTP_202, detail |-> <<>>,
     add_task_id |-> add_task, remove_task_id |-> add_task]

Response(add_task, remove_task) ==
    [status |-> HTTP_202, detail |-> <<>>,
     add_task_id |-> add_task, remove_task_id |-> remove_task]

Raise(i, response) ==
    req' = [req EXCEPT ![i].pc = "done", ![i].response = response]

\* The request arrives and looks the collection version up.
GetCollectionVersion(version_str, source_path, dest_path) ==
    /\ Len(req) < MaxRequests
    /\ LET r == [kwargs |-> [version_str |-> version_str,
                             source_path |-> source_path,
                             dest_path |-> dest_path],
                 pc |-> "get_repos", crashed |-> FALSE,
                 collection_version |-> version_str,
                 src_repo |-> None, dest_repo |-> None,
                 add_task |-> 0, remove_task |-> 0,
                 response |-> NoResponse]
       IN  IF version_str \in CollectionVersion
           THEN req' = Append(req, r)
           ELSE req' = Append(req, [r EXCEPT
                    !.pc = "done", !.collection_version = None,
                    !.response = NotFound(<<"Collection ", version_str, " not found">>)])
    /\ UNCHANGED <<versions, tasks>>

Running(i) == i \in DOMAIN req /\ ~req[i].crashed

GetRepos(i) ==
    /\ Running(i) /\ req[i].pc = "get_repos"
    /\ LET src == AnsibleDistribution(req[i].kwargs.source_path)
           dest == AnsibleDistribution(req[i].kwargs.dest_path)
       IN  IF src = "DoesNotExist" \/ dest = "DoesNotExist"
           THEN Raise(i, NotFound(<<"Repo(s) for moving collection ",
                                    req[i].kwargs.version_str, " not found">>))
           ELSE req' = [req EXCEPT ![i].pc = "check_src",
                                   ![i].src_repo = src, ![i].dest_repo = dest]
    /\ UNCHANGED <<versions, tasks>>

src_versions(src_repo) == latest_version_content(src_repo)

dest_versions_unchecked(dest_repo) == {}

dest_versions_with_queued(dest_repo) ==
    latest_version_content(dest_repo) \cup
    {tasks[t].args[1] : t \in {u \in DOMAIN tasks :
         /\ tasks[u].func = "add_content_to_repository"
         /\ tasks[u].args[2] = dest_repo
         /\ tasks[u].state \in {"waiting", "running"}}}

dest_versions(dest_repo) == latest_version_content(dest_repo)

CheckSource_dest_first(i) ==
    /\ Running(i) /\ req[i].pc = "check_src"
    /\ IF req[i].src_repo = None \/ req[i].dest_repo = None
       THEN Raise(i, AttributeError)
       ELSE IF req[i].collection_version \in dest_versions(req[i].dest_repo)
       THEN Raise(i, APIException(<<"Collection ", req[i].kwargs.version_str,
                                    " already found in destination repo">>))
       ELSE IF req[i].collection_version \notin src_versions(req[i].src_repo)
       THEN Raise(i, NotFound(<<"Collection ", req[i].kwargs.version_str,
                                " not found in source repo">>))
       ELSE req' = [req EXCEPT ![i].pc = "check_dest"]
    /\ UNCHANGED <<versions, tasks>>

CheckSource(i) ==
    /\ Running(i) /\ req[i].pc = "check_src"
    /\ IF req[i].src_repo = None
       THEN Raise(i, AttributeError)
       ELSE IF req[i].collection_version \notin src_versions(req[i].src_repo)
       THEN Raise(i, NotFound(<<"Collection ", req[i].kwargs.version_str,
                                " not found in source repo">>))
       ELSE req' = [req EXCEPT ![i].pc = "check_dest"]
    /\ UNCHANGED <<versions, tasks>>

CheckDest(i) ==
    /\ Running(i) /\ req[i].pc = "check_dest"
    /\ IF req[i].dest_repo = None
       THEN Raise(i, AttributeError)
       ELSE IF req[i].collection_version \in dest_versions(req[i].dest_repo)
       THEN Raise(i, APIException(<<"Collection ", req[i].kwargs.version_str,
                                    " already found in destination repo">>))
       ELSE req' = [req EXCEPT ![i].pc = "add"]
    /\ UNCHANGED <<versions, tasks>>

AddContent_remove_first(i) ==
    /\ Running(i) /\ req[i].pc = "add"
    /\ tasks' = Append(tasks, _remove_content(req[i].collection_version, req[i].src_repo))
    /\ req' = [req EXCEPT ![i].pc = "remove", ![i].remove_task = Len(tasks) + 1]
    /\ UNCHANGED versions

AddContent(i) ==
    /\ Running(i) /\ req[i].pc = "add"
    /\ tasks' = Append(tasks, _add_content(req[i].collection_version, req[i].dest_repo))
    /\ req' = [req EXCEPT ![i].pc = "remove", ![i].add_task = Len(tasks) + 1]
    /\ UNCHANGED versions

RemoveContent_from_dest(i) ==
    /\ Running(i) /\ req[i].pc = "remove"
    /\ tasks' = Append(tasks, _remove_content(req[i].collection_version, req[i].dest_repo))
    /\ req' = [req EXCEPT ![i].pc = "respond", ![i].remove_task = Len(tasks) + 1]
    /\ UNCHANGED versions

RemoveContent(i) ==
    /\ Running(i) /\ req[i].pc = "remove"
    /\ tasks' = Append(tasks, _remove_content(req[i].collection_version, req[i].src_repo))
    /\ req' = [req EXCEPT ![i].pc = "respond", ![i].remove_task = Len(tasks) + 1]
    /\ UNCHANGED versions

Respond(i) ==
    /\ Running(i) /\ req[i].pc = "respond"
    /\ Raise(i, Response(req[i].add_task, req[i].remove_task))
    /\ UNCHANGED <<versions, tasks>>

\* The web worker stops in the middle of the handler.
Crash(i) ==
    /\ Running(i) /\ req[i].pc # "done"
    /\ req' = [req EXCEPT ![i].crashed = TRUE]
    /\ UNCHANGED <<versions, tasks>>

-----------------------------------------------------------------------------
(* CollectionUploadViewSet: the upload of a collection artifact.           *)

MaxUploads == 2

\* Namespace.objects, and the namespaces a filename can name.
Namespaces == {"alice", "bob"}

FilenameNamespaces == Namespaces \cup {"carol"}

\* Names and paths are sequences of parts, so that a prefix can be read off.
INBOUND_REPO_NAME_FORMAT(namespace_name) == <<"inbound-", namespace_name>>

\* AnsibleDistribution.objects: the distribution of each namespace's inbound
\* repository, the staging one, and one more path serving alice's inbound
\* repository.
Distributions ==
    {[base_path |-> INBOUND_REPO_NAME_FORMAT(n),
      repository_name |-> INBOUND_REPO_NAME_FORMAT(n)] : n \in Namespaces}
    \cup {[base_path |-> <<"staging">>, repository_name |-> <<"staging">>],
          [base_path |-> <<"custom">>,
           repository_name |-> INBOUND_REPO_NAME_FORMAT("alice")]}

UploadPaths == {d.base_path : d \in Distributions} \cup {<<"missing">>}

\* get_object_or_404(AnsibleDistribution, base_path=path): empty on Http404.
get_object_or_404(path) == {d \in Distributions : d.base_path = path}

\* Raises APIException unless the distribution's repository is the inbound
\* repository of the filename's namespace.
_check_path_matches_expected_repo(path, filename_ns) ==
    IF get_object_or_404(path) = {} THEN "Http404"
    ELSE LET distro == CHOOSE d \in get_object_or_404(path) : TRUE
             repo_name == distro.repository_name
         IN  IF INBOUND_REPO_NAME_FORMAT(filename_ns) = repo_name
             THEN "ok" ELSE "APIException"

\* The task handed to the queue: locked on the repository, and the function
\* picked by the approval setting.
_dispatch_import_collection_task(temp_file_pk, repository) ==
    [func |-> IF GALAXY_REQUIRE_CONTENT_APPROVAL
              THEN "import_and_move_to_staging" ELSE "import_and_auto_approve",
     locks |-> {repository},
     temp_file_pk |-> temp_file_pk,
     repository_pk |-> repository]

\* How the handler ends: the first check to fail decides.
UploadOutcome(path, filename_ns, valid, permitted, artifact_ok) ==
    IF ~valid THEN "InvalidData"
    ELSE IF filename_ns \notin Namespaces THEN "NamespaceDoesNotExist"
    ELSE IF _check_path_matches_expected_repo(path, filename_ns) # "ok"
         THEN _check_path_matches_expected_repo(path, filename_ns)
    ELSE IF ~permitted THEN "PermissionDenied"
    ELSE IF ~artifact_ok THEN "ValidationError"
    ELSE "Accepted"

\* create: one upload request, from the serializer to the response.
UploadCreate(path, filename_ns, valid, permitted, artifact_ok) ==
    /\ Len(uploads) < MaxUploads
    /\ LET outcome == UploadOutcome(path, filename_ns, valid, permitted, artifact_ok)
           task_id == Len(import_tasks) + 1
           distro == CHOOSE d \in get_object_or_404(path) : TRUE
       IN  /\ uploads' = Append(uploads,
                  [path |-> path, filename_ns |-> filename_ns, valid |-> valid,
                   permitted |-> permitted, artifact_ok |-> artifact_ok,
                   outcome |-> outcome,
                   task |-> IF outcome = "Accepted" THEN task_id ELSE 0])
           /\ IF outcome = "Accepted"
              THEN /\ import_tasks' = Append(import_tasks,
                          _dispatch_import_collection_task(Len(uploads) + 1,
                                                           distro.repository_name))
                   /\ collection_imports' = Append(collection_imports,
                          [task_id |-> task_id, namespace |-> filename_ns])
              ELSE UNCHANGED <<import_tasks, collection_imports>>
    /\ UNCHANGED GALAXY_REQUIRE_CONTENT_APPROVAL

-----------------------------------------------------------------------------
(* The synclist endpoints, as the unit tests exercise them.                *)

DeploymentMode == {"insights", "standalone"}

\* The callers of the tests: admin_user, user1, the base test case's user and
\* the unauthenticated client (force_authenticate(user=None)).
Users == {"admin_user", "test1", "user", "AnonymousUser"}

pe_group == "partner-engineers"

\* setUp: admin_user joins the partner-engineer group, test1 joins test1_group.
Groups(user) ==
    CASE user = "admin_user" -> {pe_group}
      [] user = "test1" -> {"test1_group"}
      [] OTHER -> {}

SyncListPks == {1, 2}

HTTP_200_OK == 200
HTTP_201_CREATED == 201
HTTP_204_NO_CONTENT == 204
HTTP_403_FORBIDDEN == 403

NoSyncListResponse ==
    [action |-> "none", user |-> None, mode |-> None, pk |-> 0, status |-> 0]

SyncListAccessPolicy_ignores_mode(mode, user) == pe_group \in Groups(user)

\* The access policy of the synclist viewset: partner engineers, and only
\* where the deployment mode is insights.
SyncListAccessPolicy(mode, user) == mode = "insights" /\ pe_group \in Groups(user)

\* The answer to one call: the permission check comes before the lookup.
SyncListAnswer(action, user, pk, found, success) ==
    [action |-> action, user |-> user, mode |-> GALAXY_DEPLOYMENT_MODE, pk |-> pk,
     status |-> IF ~SyncListAccessPolicy(GALAXY_DEPLOYMENT_MODE, user)
                THEN HTTP_403_FORBIDDEN
                ELSE IF ~found THEN NotFound_status_code ELSE success]

\* with self.settings(GALAXY_DEPLOYMENT_MODE=...)
OverrideSettings(mode) ==
    /\ GALAXY_DEPLOYMENT_MODE # mode
    /\ GALAXY_DEPLOYMENT_MODE' = mode
    /\ UNCHANGED <<synclists, synclist_response>>

\* _create_synclist: a row made by the test itself, not through the API.
_create_synclist(pk) ==
    /\ pk \notin synclists
    /\ synclists' = synclists \cup {pk}
    /\ UNCHANGED <<GALAXY_DEPLOYMENT_MODE, synclist_response>>

SyncListCreate(user) ==
    /\ synclists # SyncListPks
    /\ LET pk == CHOOSE k \in SyncListPks \ synclists : \A j \in SyncListPks \ synclists : k <= j
           answer == SyncListAnswer("create", user, pk, TRUE, HTTP_201_CREATED)
       IN  /\ synclist_response' = answer
           /\ synclists' = IF answer.status = HTTP_201_CREATED
                           THEN synclists \cup {pk} ELSE synclists
    /\ UNCHANGED GALAXY_DEPLOYMENT_MODE

SyncListList(user) ==
    /\ synclist_response' = SyncListAnswer("list", user, 0, TRUE, HTTP_200_OK)
    /\ UNCHANGED <<GALAXY_DEPLOYMENT_MODE, synclists>>

SyncListRetrieve(user, pk) ==
    /\ synclist_response' = SyncListAnswer("retrieve", user, pk, pk \in synclists, HTTP_200_OK)
    /\ UNCHANGED <<GALAXY_DEPLOYMENT_MODE, synclists>>

SyncListUpdate(user, pk) ==
    /\ synclist_response' = SyncListAnswer("update", user, pk, pk \in synclists, HTTP_200_OK)
    /\ UNCHANGED <<GALAXY_DEPLOYMENT_MODE, synclists>>

SyncListDestroy(user, pk) ==
    /\ LET answer == SyncListAnswer("destroy", user, pk, pk \in synclists, HTTP_204_NO_CONTENT)
       IN  /\ synclist_response' = answer
           /\ synclists' = IF answer.status = HTTP_204_NO_CONTENT
                           THEN synclists \ {pk} ELSE synclists
    /\ UNCHANGED GALAXY_DEPLOYMENT_MODE

-----------------------------------------------------------------------------

\* Nothing uploaded, no synclist request made.
UploadIdle ==
    /\ import_tasks = <<>>
    /\ collection_imports = <<>>
    /\ uploads = <<>>
    /\ GALAXY_REQUIRE_CONTENT_APPROVAL = TRUE

SyncListIdle ==
    /\ GALAXY_DEPLOYMENT_MODE = "standalone"
    /\ synclists = {}
    /\ synclist_response = NoSyncListResponse

MoveInit ==
    /\ versions \in [Repositories -> {<<c>> : c \in SUBSET CollectionVersion}]
    /\ tasks = <<>>
    /\ req = <<>>

Init == MoveInit /\ UploadIdle /\ SyncListIdle

Next ==
    \/ \E v \in VersionStrs, s \in Paths, d \in Paths :
          GetCollectionVersion(v, s, d) /\ UNCHANGED <<uploadVars, synclistVars>>
    \/ \E i \in 1..MaxRequests : GetRepos(i) /\ UNCHANGED <<uploadVars, synclistVars>>
    \/ \E i \in 1..MaxRequests : CheckSource(i) /\ UNCHANGED <<uploadVars, synclistVars>>
    \/ \E i \in 1..MaxRequests : CheckDest(i) /\ UNCHANGED <<uploadVars, synclistVars>>
    \/ \E i \in 1..MaxRequests : AddContent(i) /\ UNCHANGED <<uploadVars, synclistVars>>
    \/ \E i \in 1..MaxRequests : RemoveContent(i) /\ UNCHANGED <<uploadVars, synclistVars>>
    \/ \E i \in 1..MaxRequests : Respond(i) /\ UNCHANGED <<uploadVars, synclistVars>>
    \/ \E i \in 1..MaxRequests : Crash(i) /\ UNCHANGED <<uploadVars, synclistVars>>
    \/ \E t \in 1..(2 * MaxRequests) : StartTask(t) /\ UNCHANGED <<uploadVars, synclistVars>>
    \/ \E t \in 1..(2 * MaxRequests) : FinishTask(t) /\ UNCHANGED <<uploadVars, synclistVars>>
    \/ \E t \in 1..(2 * MaxRequests) : FailTask(t) /\ UNCHANGED <<uploadVars, synclistVars>>

Spec == Init /\ [][Next]_vars

\* One request alone in the system.
NextSingle ==
    \/ \E v \in VersionStrs, s \in Paths, d \in Paths :
          /\ req = <<>>
          /\ GetCollectionVersion(v, s, d)
          /\ UNCHANGED <<uploadVars, synclistVars>>
    \/ GetRepos(1) /\ UNCHANGED <<uploadVars, synclistVars>>
    \/ CheckSource(1) /\ UNCHANGED <<uploadVars, synclistVars>>
    \/ CheckDest(1) /\ UNCHANGED <<uploadVars, synclistVars>>
    \/ AddContent(1) /\ UNCHANGED <<uploadVars, synclistVars>>
    \/ RemoveContent(1) /\ UNCHANGED <<uploadVars, synclistVars>>
    \/ Respond(1) /\ UNCHANGED <<uploadVars, synclistVars>>
    \/ Crash(1) /\ UNCHANGED <<uploadVars, synclistVars>>
    \/ \E t \in 1..2 : StartTask(t) /\ UNCHANGED <<uploadVars, synclistVars>>
    \/ \E t \in 1..2 : FinishTask(t) /\ UNCHANGED <<uploadVars, synclistVars>>
    \/ \E t \in 1..2 : FailTask(t) /\ UNCHANGED <<uploadVars, synclistVars>>

\* The task workers keep taking and finishing tasks (a running task may still
\* fail); the web worker keeps running the handler unless it crashes.
Fairness ==
    /\ WF_moveVars(GetRepos(1)) /\ WF_moveVars(CheckSource(1)) /\ WF_moveVars(CheckDest(1))
    /\ WF_moveVars(AddContent(1)) /\ WF_moveVars(RemoveContent(1)) /\ WF_moveVars(Respond(1))
    /\ \A t \in 1..2 : WF_moveVars(StartTask(t)) /\ WF_moveVars(FinishTask(t))

SingleSpec == Init /\ [][NextSingle]_vars /\ Fairness

UploadInit ==
    /\ versions = [r \in Repositories |-> <<{}>>] /\ tasks = <<>> /\ req = <<>>
    /\ SyncListIdle
    /\ import_tasks = <<>>
    /\ collection_imports = <<>>
    /\ uploads = <<>>
    /\ GALAXY_REQUIRE_CONTENT_APPROVAL \in BOOLEAN

UploadNext ==
    \E path \in UploadPaths, filename_ns \in FilenameNamespaces,
       valid \in BOOLEAN, permitted \in BOOLEAN, artifact_ok \in BOOLEAN :
        /\ UploadCreate(path, filename_ns, valid, permitted, artifact_ok)
        /\ UNCHANGED <<moveVars, synclistVars>>

UploadSpec == UploadInit /\ [][UploadNext]_vars

SyncListInit ==
    /\ versions = [r \in Repositories |-> <<{}>>] /\ tasks = <<>> /\ req = <<>>
    /\ UploadIdle
    /\ GALAXY_DEPLOYMENT_MODE \in DeploymentMode
    /\ synclists = {}
    /\ synclist_response = NoSyncListResponse

SyncListNext ==
    \/ \E m \in DeploymentMode : OverrideSettings(m) /\ UNCHANGED <<moveVars, uploadVars>>
    \/ \E pk \in SyncListPks : _create_synclist(pk) /\ UNCHANGED <<moveVars, uploadVars>>
    \/ \E u \in Users : SyncListCreate(u) /\ UNCHANGED <<moveVars, uploadVars>>
    \/ \E u \in Users : SyncListList(u) /\ UNCHANGED <<moveVars, uploadVars>>
    \/ \E u \in Users, pk \in SyncListPks :
          SyncListRetrieve(u, pk) /\ UNCHANGED <<moveVars, uploadVars>>
    \/ \E u \in Users, pk \in SyncListPks :
          SyncListUpdate(u, pk) /\ UNCHANGED <<moveVars, uploadVars>>
    \/ \E u \in Users, pk \in SyncListPks :
          SyncListDestroy(u, pk) /\ UNCHANGED <<moveVars, uploadVars>>

SyncListSpec == SyncListInit /\ [][SyncListNext]_vars

-----------------------------------------------------------------------------
(* Properties                                                              *)

Succeeded(i) == req[i].pc = "done" /\ req[i].response.status = HTTP_202

Failed(i) == req[i].pc = "done" /\ req[i].response.status # HTTP_202

\* The handles held by the requests, counted with multiplicity.
Handles(i) == (IF req[i].add_task # 0 THEN 1 ELSE 0) + (IF req[i].remove_task # 0 THEN 1 ELSE 0)

RECURSIVE HandlesUpTo(_)
HandlesUpTo(n) == IF n = 0 THEN 0 ELSE Handles(n) + HandlesUpTo(n - 1)

Resolves(path) == AnsibleDistribution(path) \in Repositories

\* Request i takes a step of the handler (its arrival included).
HandlerStep(i) ==
    /\ i \in DOMAIN req'
    /\ ~req'[i].crashed
    /\ (i \notin DOMAIN req \/ req'[i] # req[i])

\* A request that cannot pass the static checks: unknown collection version
\* or a path that does not resolve to a repository.
StaticallyRejected(i) ==
    \/ req[i].kwargs.version_str \notin CollectionVersion
    \/ ~Resolves(req[i].kwargs.source_path)
    \/ ~Resolves(req[i].kwargs.dest_path)

C1_NoJobs ==
    /\ Len(tasks) = HandlesUpTo(Len(req))
    /\ \A i \in DOMAIN req :
          /\ StaticallyRejected(i) =>
                /\ req[i].add_task = 0 /\ req[i].remove_task = 0
                /\ req[i].pc \notin {"add", "remove", "respond"}
                /\ req[i].pc = "done" => Failed(i)
          /\ Failed(i) => req[i].add_task = 0 /\ req[i].remove_task = 0

C1_FailingCheck ==
    \A i \in DOMAIN req :
        /\ HandlerStep(i)
        /\ \/ /\ req[i].pc = "check_src"
              /\ req[i].src_repo \in Repositories
              /\ req[i].collection_version \notin versions[req[i].src_repo][Len(versions[req[i].src_repo])]
           \/ /\ req[i].pc = "check_dest"
              /\ req[i].dest_repo \in Repositories
              /\ req[i].collection_version \in versions[req[i].dest_repo][Len(versions[req[i].dest_repo])]
        => /\ req'[i].pc = "done" /\ req'[i].response.status # HTTP_202
           /\ req'[i].add_task = 0 /\ req'[i].remove_task = 0
           /\ tasks' = tasks
           /\ versions' = versions

\* C1: a move request whose collection version does not exist, whose source
\* or destination path does not resolve to a repository, whose unit is not in
\* the source's current content or is already in the destination's, ends in an
\* error, submits no job (neither add nor remove) and leaves every
\* repository's versions as they were.
C1_NoJobOnPreconditionFailure == [](C1_NoJobs) /\ [][C1_FailingCheck]_vars

\* C1 witness: a request was rejected at the destination check, another at the
\* source check or earlier, and nothing was submitted.
C1_Witness ==
    /\ Len(req) = 2 /\ tasks = <<>>
    /\ Failed(1) /\ req[1].response.status = APIException_status_code
    /\ req[1].dest_repo \in Repositories
    /\ Failed(2) /\ req[2].response.status = NotFound_status_code

\* C2: in every move the add job, on the destination repository, is submitted
\* before the remove job, on the source repository; a remove job is never
\* submitted first or without an add job.
C2_AddBeforeRemove ==
    \A i \in DOMAIN req :
        /\ req[i].add_task # 0 =>
              /\ req[i].add_task \in DOMAIN tasks
              /\ tasks[req[i].add_task].func = "add_content_to_repository"
              /\ tasks[req[i].add_task].args = <<req[i].collection_version, req[i].dest_repo>>
        /\ req[i].remove_task # 0 =>
              /\ req[i].remove_task \in DOMAIN tasks
              /\ tasks[req[i].remove_task].func = "remove_content_from_repository"
              /\ tasks[req[i].remove_task].args = <<req[i].collection_version, req[i].src_repo>>
              /\ req[i].add_task # 0
              /\ req[i].add_task < req[i].remove_task
        /\ Succeeded(i) => req[i].add_task # 0 /\ req[i].remove_task # 0

C2_Witness == \E i \in DOMAIN req : Succeeded(i) /\ req[i].add_task < req[i].remove_task

AlreadyInDestination(i) ==
    /\ req[i].pc = "done"
    /\ Len(req[i].response.detail) = 3
    /\ req[i].response.detail[3] = " already found in destination repo"

NotInSource(i) ==
    /\ req[i].pc = "done"
    /\ Len(req[i].response.detail) = 3
    /\ req[i].response.detail[3] = " not found in source repo"

\* C3: "already in destination" is answered with a 4xx client error that is
\* not 404, "not in source" with 404.
C3_ConflictIsClientError ==
    \A i \in DOMAIN req :
        /\ AlreadyInDestination(i) =>
              /\ req[i].response.status \in 400..499
              /\ req[i].response.status # NotFound_status_code
        /\ NotInSource(i) => req[i].response.status = NotFound_status_code

\* The collection version is in the repository's current content.
InRepo(cv, repo) == repo \in Repositories /\ cv \in versions[repo][Len(versions[repo])]

BothCompleted(i) ==
    /\ req[i].add_task \in DOMAIN tasks /\ tasks[req[i].add_task].state = "completed"
    /\ req[i].remove_task \in DOMAIN tasks /\ tasks[req[i].remove_task].state = "completed"

Moved(i) ==
    /\ i \in DOMAIN req
    /\ req[i].src_repo \in Repositories
    /\ ~InRepo(req[i].collection_version, req[i].src_repo)
    /\ InRepo(req[i].collection_version, req[i].dest_repo)

SomeTaskFailed == \E t \in DOMAIN tasks : tasks[t].state = "failed"

\* C4: a single move request that succeeds, with no other request in the
\* system: once both its jobs have completed the source's current content
\* excludes the unit and the destination's includes it, and while the workers
\* keep running tasks that state is reached unless a job fails.
C4_EventuallyMoved ==
    /\ [](Len(req) = 1 /\ Succeeded(1) /\ BothCompleted(1) => Moved(1))
    /\ ((Len(req) = 1 /\ Succeeded(1)) ~> (Moved(1) \/ SomeTaskFailed))

C4_Witness == Len(req) = 1 /\ Succeeded(1) /\ BothCompleted(1) /\ Moved(1)

\* C5: two moves of the same unit out of the same source into two different
\* destinations can both be accepted; when their four jobs have completed the
\* unit is in both destinations and not in the source.
C5_DuplicateMembership ==
    \A i, j \in DOMAIN req :
        /\ Succeeded(i) /\ Succeeded(j)
        /\ req[i].collection_version = req[j].collection_version
        /\ req[i].src_repo = req[j].src_repo
        /\ req[i].dest_repo # req[j].dest_repo
        /\ req[i].src_repo \notin {req[i].dest_repo, req[j].dest_repo}
        /\ Len(tasks) = 4
        /\ \A t \in DOMAIN tasks : tasks[t].state = "completed"
        => /\ InRepo(req[i].collection_version, req[i].dest_repo)
           /\ InRepo(req[i].collection_version, req[j].dest_repo)
           /\ ~InRepo(req[i].collection_version, req[i].src_repo)

C5_Witness ==
    /\ Len(req) = 2 /\ Succeeded(1) /\ Succeeded(2)
    /\ req[1].collection_version = req[2].collection_version
    /\ req[1].src_repo = req[2].src_repo
    /\ req[1].dest_repo # req[2].dest_repo
    /\ req[1].src_repo \notin {req[1].dest_repo, req[2].dest_repo}
    /\ Len(tasks) = 4
    /\ \A t \in DOMAIN tasks : tasks[t].state = "completed"
    /\ InRepo(req[1].collection_version, req[1].dest_repo)
    /\ InRepo(req[1].collection_version, req[2].dest_repo)

\* The handler of request i stopped between the two submissions.
CrashedBetweenSubmissions(i) == req[i].crashed /\ req[i].pc = "remove"

\* C6: when the only request in the system crashes after submitting its first
\* job and before submitting its second, the unit is never in neither
\* repository, and once the submitted job has completed it is in both.
C6_CrashDuplicatesNeverLoses ==
    Len(req) = 1 /\ CrashedBetweenSubmissions(1) =>
        /\ Len(tasks) = 1
        /\ InRepo(req[1].collection_version, req[1].src_repo)
              \/ InRepo(req[1].collection_version, req[1].dest_repo)
        /\ tasks[1].state = "completed" =>
              /\ InRepo(req[1].collection_version, req[1].src_repo)
              /\ InRepo(req[1].collection_version, req[1].dest_repo)

C6_Witness ==
    /\ Len(req) = 1 /\ CrashedBetweenSubmissions(1)
    /\ Len(tasks) = 1 /\ tasks[1].state = "completed"
    /\ InRepo(req[1].collection_version, req[1].src_repo)
    /\ InRepo(req[1].collection_version, req[1].dest_repo)

\* Every job reserves exactly the repository it mutates, the add job of a
\* request is on its destination and the remove job on its source, and no two
\* jobs on one repository run at the same time.
OneKeyPerJob ==
    /\ \A t \in DOMAIN tasks : tasks[t].locks = {tasks[t].args[2]}
    /\ \A i \in DOMAIN req :
          /\ req[i].add_task # 0 =>
                /\ tasks[req[i].add_task].args = <<req[i].collection_version, req[i].dest_repo>>
                /\ tasks[req[i].add_task].locks = {req[i].dest_repo}
          /\ req[i].remove_task # 0 =>
                /\ tasks[req[i].remove_task].args = <<req[i].collection_version, req[i].src_repo>>
                /\ tasks[req[i].remove_task].locks = {req[i].src_repo}
    /\ \A t, u \in DOMAIN tasks :
          /\ t # u
          /\ tasks[t].state = "running" /\ tasks[u].state = "running"
          => tasks[t].args[2] # tasks[u].args[2]

\* C7 as stated: besides the above, the add and the remove job of one move
\* always hold different keys.
C7_Original ==
    /\ OneKeyPerJob
    /\ \A i \in DOMAIN req :
          req[i].add_task # 0 /\ req[i].remove_task # 0 =>
              tasks[req[i].add_task].locks # tasks[req[i].remove_task].locks

\* C7 amended: every job holds exactly one reservation key, the repository it
\* mutates (add: destination, remove: source), two jobs on one repository never
\* run at the same time, and the two jobs of one move hold different keys
\* exactly when its source and destination are different repositories.
C7_ReservationKeys ==
    /\ OneKeyPerJob
    /\ \A i \in DOMAIN req :
          req[i].add_task # 0 /\ req[i].remove_task # 0 =>
              (tasks[req[i].add_task].locks # tasks[req[i].remove_task].locks
                  <=> req[i].src_repo # req[i].dest_repo)

\* C7 witness: the add and the remove job of one move are running together.
C7_Witness ==
    \E i \in DOMAIN req :
        /\ req[i].add_task # 0 /\ req[i].remove_task # 0
        /\ tasks[req[i].add_task].state = "running"
        /\ tasks[req[i].remove_task].state = "running"
        /\ req[i].src_repo # req[i].dest_repo

\* C8: an accepted move is answered 202 with add_task_id and remove_task_id,
\* the two distinct handles of the add and the remove job this request
\* submitted; a request that passed the four checks and answers, answers 202;
\* every job in the queue is one of the requests' handles.
C8_AcceptedResponse ==
    /\ Len(tasks) = HandlesUpTo(Len(req))
    /\ \A i \in DOMAIN req :
          /\ Succeeded(i) =>
                /\ req[i].response.add_task_id = req[i].add_task
                /\ req[i].response.remove_task_id = req[i].remove_task
                /\ req[i].response.add_task_id # req[i].response.remove_task_id
                /\ req[i].response.add_task_id \in DOMAIN tasks
                /\ req[i].response.remove_task_id \in DOMAIN tasks
                /\ tasks[req[i].response.add_task_id].func = "add_content_to_repository"
                /\ tasks[req[i].response.remove_task_id].func = "remove_content_from_repository"
                /\ \A j \in DOMAIN req : j # i =>
                      {req[j].add_task, req[j].remove_task}
                          \cap {req[i].response.add_task_id, req[i].response.remove_task_id} = {}
          /\ req[i].pc = "done" /\ req[i].add_task # 0 => Succeeded(i)
          /\ req[i].pc = "respond" => req[i].add_task # 0 /\ req[i].remove_task # 0

\* C8 witness: the response is out while both jobs are still waiting.
C8_Witness ==
    \E i \in DOMAIN req :
        /\ Succeeded(i)
        /\ tasks[req[i].response.add_task_id].state = "waiting"
        /\ tasks[req[i].response.remove_task_id].state = "waiting"

\* C9: when a move has been accepted and no job has started yet, a request
\* with the same arguments that has been answered was accepted too, with an
\* add/remove pair of its own.
C9_ChecksReadStateNotQueue ==
    \A i, j \in DOMAIN req :
        /\ i # j
        /\ req[i].kwargs = req[j].kwargs
        /\ Succeeded(i)
        /\ req[j].pc = "done"
        /\ \A t \in DOMAIN tasks : tasks[t].state = "waiting"
        => /\ Succeeded(j)
           /\ req[j].add_task # 0 /\ req[j].remove_task # 0
           /\ {req[i].add_task, req[i].remove_task} \cap {req[j].add_task, req[j].remove_task} = {}

\* C9 witness: the second request submitted its pair after the first had
\* submitted its own, and all four jobs are waiting.
C9_Witness ==
    /\ Len(req) = 2 /\ req[1].kwargs = req[2].kwargs
    /\ Succeeded(1) /\ Succeeded(2)
    /\ req[1].remove_task < req[2].add_task
    /\ Len(tasks) = 4
    /\ \A t \in DOMAIN tasks : tasks[t].state = "waiting"

C10_Frame ==
    /\ req' # req => versions' = versions
    /\ \A r \in Repositories :
          versions'[r] # versions[r] =>
              /\ req' = req
              /\ \E t \in DOMAIN tasks :
                    /\ tasks[t].state = "running"
                    /\ r \in tasks[t].locks
                    /\ tasks' = [tasks EXCEPT ![t].state = "completed"]
              /\ Len(versions'[r]) = Len(versions[r]) + 1
              /\ SubSeq(versions'[r], 1, Len(versions[r])) = versions[r]
              /\ \A r2 \in Repositories \ {r} : versions'[r2] = versions[r2]

\* C10: no step of move_content changes a repository's versions; a
\* repository's versions change only by a worker completing a job that holds
\* the reservation of that repository, which appends one version to that
\* repository and touches no other.
C10_OnlyWorkersMutate == [][C10_Frame]_vars

\* C10 witness: a move was accepted and its jobs changed both repositories.
C10_Witness ==
    \E i \in DOMAIN req :
        /\ Succeeded(i) /\ BothCompleted(i)
        /\ Len(versions[req[i].src_repo]) > 1
        /\ Len(versions[req[i].dest_repo]) > 1
        /\ Moved(i)

-----------------------------------------------------------------------------
(* The order of the checks, the window between the two jobs, one repository *)
(* as source and destination.                                              *)

\* No distribution has this base_path: .get() raises ObjectDoesNotExist.
NoDistribution(path) == AnsibleDistribution(path) = "DoesNotExist"

C12_FirstFailureDecides ==
    \A i \in DOMAIN req :
        LET v == req[i].kwargs.version_str
            badPath == \/ NoDistribution(req[i].kwargs.source_path)
                       \/ NoDistribution(req[i].kwargs.dest_path)
        IN  /\ v \notin CollectionVersion =>
                  /\ req[i].pc = "done"
                  /\ req[i].response = NotFound(<<"Collection ", v, " not found">>)
                  /\ req[i].src_repo = None /\ req[i].dest_repo = None
            /\ v \in CollectionVersion /\ badPath =>
                  /\ req[i].pc \in {"get_repos", "done"}
                  /\ req[i].src_repo = None /\ req[i].dest_repo = None
                  /\ req[i].pc = "done" =>
                        req[i].response =
                            NotFound(<<"Repo(s) for moving collection ", v, " not found">>)
            /\ NotInSource(i) \/ AlreadyInDestination(i) =>
                  /\ v \in CollectionVersion /\ ~badPath
                  /\ req[i].src_repo \in Repositories

C12_SourceBeforeDestination ==
    \A i \in DOMAIN req :
        /\ HandlerStep(i)
        /\ req[i].pc = "check_src"
        /\ req[i].src_repo \in Repositories
        /\ ~InRepo(req[i].collection_version, req[i].src_repo)
        => /\ req'[i].pc = "done"
           /\ req'[i].response =
                 NotFound(<<"Collection ", req[i].kwargs.version_str,
                            " not found in source repo">>)

BothSubmitted(i) ==
    /\ req[i].add_task # 0 /\ req[i].remove_task # 0
    /\ ~SomeTaskFailed

InNeither(i) ==
    /\ ~InRepo(req[i].collection_version, req[i].src_repo)
    /\ ~InRepo(req[i].collection_version, req[i].dest_repo)

\* C14 as stated: with one request in the system, from the submission of its
\* two jobs on the unit is always in the source or in the destination.
C14_Original == Len(req) = 1 /\ BothSubmitted(1) => ~InNeither(1)

\* C14 amended: with one request in the system and no job failed, the unit is
\* in neither repository exactly while the remove job has completed and the
\* add job has not; in every other state from the submission on it is in the
\* source or in the destination.
C14_NeitherOnlyWhileRemoveRanFirst ==
    Len(req) = 1 /\ BothSubmitted(1) =>
        (InNeither(1) <=> /\ tasks[req[1].remove_task].state = "completed"
                          /\ tasks[req[1].add_task].state # "completed")

\* C14 witness: the remove job completed while the add job is still waiting.
C14_Witness ==
    /\ Len(req) = 1 /\ BothSubmitted(1) /\ Succeeded(1)
    /\ tasks[req[1].remove_task].state = "completed"
    /\ tasks[req[1].add_task].state = "waiting"
    /\ InNeither(1)

SameRepo(i) == req[i].src_repo \in Repositories /\ req[i].src_repo = req[i].dest_repo

PassedChecks(i) ==
    \/ req[i].pc \in {"add", "remove", "respond"}
    \/ req[i].add_task # 0
    \/ req[i].remove_task # 0
    \/ Succeeded(i)

\* C15 as stated: a move whose source and destination are one repository
\* never passes the checks and never submits a job.
C15_Original == \A i \in DOMAIN req : SameRepo(i) => ~PassedChecks(i)

\* C15 amended: a move whose source and destination are one repository passes
\* the checks and submits jobs only if another request's remove job of that
\* unit completed on that repository (between its two membership checks);
\* otherwise it fails with 'already found in destination repo' when the unit
\* is in the repository and with NotFound when it is not.
C15_SameRepoNeedsForeignRemove ==
    \A i \in DOMAIN req :
        SameRepo(i) =>
            /\ PassedChecks(i) =>
                  \E t \in DOMAIN tasks :
                      /\ t \notin {req[i].add_task, req[i].remove_task}
                      /\ tasks[t].func = "remove_content_from_repository"
                      /\ tasks[t].args = <<req[i].collection_version, req[i].src_repo>>
                      /\ tasks[t].state = "completed"
            /\ Failed(i) => NotInSource(i) \/ AlreadyInDestination(i)
            /\ (\A t \in DOMAIN tasks : tasks[t].state # "completed") /\ req[i].pc = "done" =>
                  IF InRepo(req[i].collection_version, req[i].src_repo)
                  THEN AlreadyInDestination(i)
                  ELSE NotInSource(i)

\* C15 witness: both outcomes of a same-repository move with nothing else
\* changing the repository.
C15_Witness ==
    /\ Len(req) = 2 /\ tasks = <<>>
    /\ SameRepo(1) /\ AlreadyInDestination(1)
    /\ SameRepo(2) /\ NotInSource(2)

-----------------------------------------------------------------------------
(* The synclist endpoints.                                                 *)

Permitted(status) == status \in {HTTP_200_OK, HTTP_201_CREATED, HTTP_204_NO_CONTENT}

-----------------------------------------------------------------------------
(* The upload endpoint.                                                    *)

Dispatched(k) == uploads[k].task # 0

RECURSIVE AcceptedUpTo(_)
AcceptedUpTo(n) ==
    IF n = 0 THEN 0
    ELSE AcceptedUpTo(n - 1) + (IF uploads[n].outcome = "Accepted" THEN 1 ELSE 0)

\* An upload has a job and a row only after the namespace lookup, the
\* repository-name check and the permission check, in this order; a failed
\* one has neither, an accepted one has one row with its job's id.
UploadChecksGuardDispatch ==
    /\ Len(import_tasks) = AcceptedUpTo(Len(uploads))
    /\ Len(collection_imports) = Len(import_tasks)
    /\ \A k \in DOMAIN uploads :
          LET u == uploads[k]
          IN  /\ Dispatched(k) <=> u.outcome = "Accepted"
              /\ Dispatched(k) =>
                    /\ u.filename_ns \in Namespaces
                    /\ \E d \in Distributions :
                          /\ d.base_path = u.path
                          /\ d.repository_name = INBOUND_REPO_NAME_FORMAT(u.filename_ns)
                    /\ u.permitted
                    /\ Cardinality({j \in DOMAIN collection_imports :
                                      collection_imports[j].task_id = u.task}) = 1
                    /\ import_tasks[u.task].locks = {INBOUND_REPO_NAME_FORMAT(u.filename_ns)}
              /\ u.valid /\ u.filename_ns \notin Namespaces =>
                    u.outcome = "NamespaceDoesNotExist"
              /\ u.valid /\ u.filename_ns \in Namespaces
                    /\ _check_path_matches_expected_repo(u.path, u.filename_ns) # "ok" =>
                    u.outcome \in {"Http404", "APIException"}

\* The paths the check is documented to reject.
PathOutsideInboundFormat(path, filename_ns) ==
    \/ path = <<"staging">>
    \/ path[1] # "inbound-"
    \/ path # INBOUND_REPO_NAME_FORMAT(filename_ns)

\* C13: an upload dispatches an import job and creates a CollectionImport row
\* only after the namespace was found, the path's distribution was found to
\* point at the namespace's inbound repository (so 'staging', a path not
\* starting with 'inbound-', and 'inbound-alice' with namespace 'bob' are
\* rejected) and the permission check passed; a failed upload dispatches and
\* records nothing, an accepted one has exactly one row with the job's id.
C13_UploadGuarded ==
    /\ UploadChecksGuardDispatch
    /\ \A k \in DOMAIN uploads :
          PathOutsideInboundFormat(uploads[k].path, uploads[k].filename_ns) =>
              ~Dispatched(k)

====
